---- MODULE Spec2Model ----
(***************************************************************************)
(* Multi-user portfolio API (src/main.py, src/schemas.py): the request     *)
(* handlers over the four collections user, profile, project and blog.     *)
(* Every store call of a handler is one atomic step, and so is a reading   *)
(* of the clock that precedes a store call; handlers that make several     *)
(* such steps (signup, get_profile, update_profile, create_blog) occupy a  *)
(* request slot between them, so that requests interleave.                 *)
(***************************************************************************)
EXTENDS Integers, Sequences, FiniteSets, TLC

\* users, profiles, projects, blogs: the four collections, each in store order
\* nextOid: the identifiers the store has assigned; now: the last reading of the clock
\* proc: the requests in flight between two of their steps
\* resp: the response of the step just taken
\* provisioned: history, the usernames for which a signup has returned success with
\*   no update_profile for that username in flight at that return or begun since
VARIABLES users, profiles, projects, blogs, nextOid, now, proc, resp, provisioned

vars == <<users, profiles, projects, blogs, nextOid, now, proc, resp, provisioned>>

store == <<users, profiles, projects, blogs>>

(***************************************************************************)
(* Bounds of the model.                                                    *)
(***************************************************************************)
\* documents the store assigns an identifier to, over all collections
MaxOid == 4
\* readings of the clock that differ
MaxTime == 1

(***************************************************************************)
(* Program constants.                                                      *)
(***************************************************************************)
UsernameMinLen == 3
UsernameMaxLen == 30
OidLen == 24

(***************************************************************************)
(* Optional values: None is the empty sequence, a present value v is <<v>>.*)
(***************************************************************************)
None == <<>>
Some(v) == <<v>>

\* Python truthiness of an Optional[str]: None and "" are falsy.
Truthy(o) == o # None /\ o # Some("")

(***************************************************************************)
(* Characters. Strings that the code inspects character by character       *)
(* (emails, identifiers) are sequences of one-character strings.           *)
(***************************************************************************)
UpperChars == <<"A", "B", "C", "D", "E", "F", "X">>
LowerChars == <<"a", "b", "c", "d", "e", "f", "x">>
HexChars == <<"0", "1", "2", "3", "4", "5", "6", "7", "8", "9", "a", "b", "c", "d", "e", "f">>

Chars == {UpperChars[i] : i \in 1..Len(UpperChars)}
         \cup {HexChars[i] : i \in 1..Len(HexChars)}
         \cup {"x", "g", "@", "."}

IndexOf(c, s) == IF \E i \in 1..Len(s) : s[i] = c
                 THEN CHOOSE i \in 1..Len(s) : s[i] = c
                 ELSE 0

\* str.lower and str.upper, one character at a time
LowerOf == [c \in Chars |->
              IF IndexOf(c, UpperChars) > 0 THEN LowerChars[IndexOf(c, UpperChars)] ELSE c]

UpperOf == [c \in Chars |->
              IF IndexOf(c, LowerChars) > 0 THEN UpperChars[IndexOf(c, LowerChars)] ELSE c]

ToLower(c) == LowerOf[c]

ToUpper(c) == UpperOf[c]

LowerStr(s) == [i \in 1..Len(s) |-> ToLower(s[i])]

UpperStr(s) == [i \in 1..Len(s) |-> ToUpper(s[i])]

(***************************************************************************)
(* EmailStr (schemas.py: User.email). The email is split at its "@"; the   *)
(* local part and each label of the domain must be non-empty and the       *)
(* domain has at least two labels. The validated value is the normalized   *)
(* form: the local part as given, the domain in lower case.                *)
(***************************************************************************)
AtPositions(e) == {i \in 1..Len(e) : e[i] = "@"}

LocalPart(e) == SubSeq(e, 1, (CHOOSE i \in AtPositions(e) : TRUE) - 1)

DomainPart(e) == SubSeq(e, (CHOOSE i \in AtPositions(e) : TRUE) + 1, Len(e))

DomainOk(d) == /\ Len(d) > 0
               /\ d[1] # "."
               /\ d[Len(d)] # "."
               /\ \E i \in 1..Len(d) : d[i] = "."
               /\ \A i \in 1..(Len(d) - 1) : ~(d[i] = "." /\ d[i + 1] = ".")

EmailValid(e) == /\ Cardinality(AtPositions(e)) = 1
                 /\ Len(LocalPart(e)) > 0
                 /\ DomainOk(DomainPart(e))

EmailNormalized(e) == LocalPart(e) \o <<"@">> \o LowerStr(DomainPart(e))

(***************************************************************************)
(* bson ObjectId. An identifier is 12 bytes, here its 24 half-bytes        *)
(* (numbers 0..15). ObjectId(s) accepts a string of exactly 24 hex digits  *)
(* of either case; str(oid) prints the 24 digits in lower case.            *)
(***************************************************************************)
\* the value of a hex digit of either case, -1 for any other character
HexDigit == [c \in Chars |-> IndexOf(ToLower(c), HexChars) - 1]

HexValue(c) == HexDigit[c]

ObjectIdValid(s) == Len(s) = OidLen /\ \A i \in 1..Len(s) : HexValue(s[i]) >= 0

ObjectId(s) == [i \in 1..OidLen |-> HexValue(s[i])]

OidStr(oid) == [i \in 1..OidLen |-> HexChars[oid[i] + 1]]

\* The n-th identifier the store assigns.
NewOid(n) == [i \in 1..OidLen |-> IF i = OidLen THEN n % 16 ELSE IF i = 1 THEN 10 ELSE 0]

(***************************************************************************)
(* Documents and the store adapter.                                        *)
(***************************************************************************)
\* pydantic's check of User.username: Field(min_length=3, max_length=30)
UsernameValid(u) == Len(u) >= UsernameMinLen /\ Len(u) <= UsernameMaxLen

\* UserSchema(...) of signup; its construction validates username and email
UserSchemaValid(payload) == UsernameValid(payload.username) /\ EmailValid(payload.email)

UserSchema(payload) ==
    [username |-> payload.username,
     email |-> EmailNormalized(payload.email),
     password_hash |-> payload.password,
     display_name |-> IF Truthy(payload.display_name) THEN payload.display_name
                      ELSE Some(payload.username),
     avatar_url |-> None,
     bio |-> None,
     verified |-> FALSE]

\* ProfileSchema(username=..., headline="", about="", socials={}, theme="holo")
ProfileSchema(username) ==
    [username |-> username,
     headline |-> Some(""),
     about |-> Some(""),
     socials |-> Some({}),
     theme |-> Some("holo")]

\* ProjectSchema(username=username, **payload.model_dump())
ProjectSchema(username, payload) ==
    [username |-> username,
     title |-> payload.title,
     description |-> payload.description,
     tags |-> payload.tags,
     url |-> payload.url,
     image_url |-> payload.image_url,
     featured |-> payload.featured]

\* the stamp set on every blog
StampAlways(published, t) == Some(t)

\* published_at of the data create_blog builds: stamped iff published
StampPublished(published, t) == IF published THEN Some(t) ELSE None

\* BlogSchema(username=username, **data)
BlogSchema(username, payload, t) ==
    [username |-> username,
     slug |-> payload.slug,
     title |-> payload.title,
     content |-> payload.content,
     cover_image |-> payload.cover_image,
     published |-> payload.published,
     published_at |-> StampPublished(payload.published, t)]

\* create_document: the declared fields of the object plus the assigned identifier,
\* appended to the collection
create_document(coll, obj, oid) == Append(coll, [_id |-> oid] @@ obj)

\* A filter is a document of fields and values; a document matches it when it has
\* each of these fields with that value.
Matches(d, filt) == \A k \in DOMAIN filt : k \in DOMAIN d /\ d[k] = filt[k]

\* the place of the first document, in store order, that matches; 0 if none does
FirstMatch(coll, filt) ==
    IF \E i \in 1..Len(coll) : Matches(coll[i], filt)
    THEN CHOOSE i \in 1..Len(coll) :
           Matches(coll[i], filt) /\ \A j \in 1..(i - 1) : ~Matches(coll[j], filt)
    ELSE 0

\* find_one(filter)
FindOne(coll, filt) ==
    IF FirstMatch(coll, filt) > 0 THEN Some(coll[FirstMatch(coll, filt)]) ELSE None

\* find(filter): the matching documents in store order
Find(coll, filt) == SelectSeq(coll, LAMBDA d : Matches(d, filt))

\* to_public: the absent document unchanged; otherwise "_id" dropped and "id" added
to_public(doc) ==
    IF doc = None THEN doc
    ELSE LET d == doc[1]
         IN Some([k \in (DOMAIN d \ {"_id"}) \cup {"id"} |->
                    IF k = "id" THEN OidStr(d._id) ELSE d[k]])

PublicList(items) == [i \in 1..Len(items) |-> to_public(Some(items[i]))[1]]

\* The rank of a document under a sort key: false below true for "featured"; for
\* "published_at" a missing value below every timestamp.
Rank(d, key) ==
    IF key = "featured" THEN (IF d.featured THEN 1 ELSE 0)
    ELSE IF d.published_at = None THEN -1 ELSE d.published_at[1]

\* cursor.sort(key, -1) from rank r down: descending by rank, documents of equal
\* rank in store order
RECURSIVE SortFrom(_, _, _)
SortFrom(items, key, r) ==
    IF r < -1 THEN <<>>
    ELSE SelectSeq(items, LAMBDA d : Rank(d, key) = r) \o SortFrom(items, key, r - 1)

SortDesc(items, key) == SortFrom(items, key, MaxTime)

(***************************************************************************)
(* Request inputs.                                                         *)
(***************************************************************************)
Usernames == {"ann", "bob"}

\* "al" is shorter than User.username allows
SignupUsernames == Usernames \cup {"al"}

EmailAnnUpper == <<"a", "@", "X", ".", "e", "e">>
EmailBob == <<"b", "@", "x", ".", "e", "e">>
EmailBad == <<"b", "a", "d">>

Emails == {EmailAnnUpper, EmailBob, EmailBad}

Passwords == {"pw1", "pw2"}

SignupRequest == [username : SignupUsernames, email : Emails, password : Passwords,
                  display_name : {None}]

LoginRequest == [username : SignupUsernames, password : Passwords]

ProfileUpdate == [headline : {None, Some("dev")},
                  about : {None},
                  socials : {None},
                  theme : {None, Some("")}]

ProjectCreate == [title : {"site"}, description : {None}, tags : {<<>>}, url : {None},
                  image_url : {None}, featured : BOOLEAN]

BlogCreate == [slug : {"hello", "world"}, title : {"t"}, content : {"c"},
               cover_image : {None}, published : BOOLEAN]

\* project_id of the path: the identifiers the store can have assigned, one of them
\* also in upper case, a string that is too short and one with a non-hex digit
BadIdShort == <<"a", "0">>
BadIdDigit == [i \in 1..OidLen |-> IF i = 1 THEN "g" ELSE "0"]

ProjectIds == {OidStr(NewOid(n)) : n \in 0..(MaxOid - 1)}
              \cup {UpperStr(OidStr(NewOid(MaxOid - 1)))}
              \cup {BadIdShort, BadIdDigit}

\* published_only of the query string: absent, or given
PublishedOnlyArgs == {None, Some(TRUE), Some(FALSE)}

(***************************************************************************)
(* Request slots and responses.                                            *)
(***************************************************************************)
\* Two requests are in flight at a time (between two of their store calls).
Procs == {1, 2}

Idle == [op |-> "idle"]

\* A new request takes the first free slot.
FreeSlot(p) == proc[p] = Idle /\ \A q \in Procs : q < p => proc[q] # Idle

NoResp == [op |-> "none"]

\* the request (operation and arguments) and what it returned
Response(op, args, status, body) ==
    [op |-> op, args |-> args, status |-> status, body |-> body]

Init ==
    /\ users = <<>>
    /\ profiles = <<>>
    /\ projects = <<>>
    /\ blogs = <<>>
    /\ nextOid = 0
    /\ now = 0
    /\ proc = [p \in Procs |-> Idle]
    /\ resp = NoResp
    /\ provisioned = {}

\* The response of the step just taken leaves the server; the next store call of any
\* request comes after it.
Deliver ==
    /\ resp # NoResp
    /\ resp' = NoResp
    /\ UNCHANGED <<users, profiles, projects, blogs, nextOid, now, proc, provisioned>>

Ready == resp = NoResp

\* datetime.utcnow(): the clock has advanced since it was last read, or it has not
utcnow == {t \in {now, now + 1} : t <= MaxTime}

(***************************************************************************)
(* signup                                                                  *)
(***************************************************************************)
\* {"username": payload.username}
UsernameFilter(username) == [username |-> username]

\* {"email": payload.email}
EmailFilter(email) == [email |-> email]

\* if users.find_one({"email": payload.email}):
EmailExists(payload) == FindOne(users, EmailFilter(payload.email)) # None

\* the username lookup made on the email field
UsernameExistsByEmail(payload) == EmailExists(payload)

\* if users.find_one({"username": payload.username}):
UsernameExists(payload) ==
    FindOne(users, UsernameFilter(payload.username)) # None

\* users.find_one({"username": payload.username})
SignupFindUsername(p, payload) ==
    /\ Ready
    /\ FreeSlot(p)
    /\ IF UsernameExists(payload)
       THEN /\ resp' = Response("signup", payload, 400, "Username already exists")
            /\ proc' = proc
       ELSE /\ resp' = NoResp
            /\ proc' = [proc EXCEPT ![p] = [op |-> "signup", pc |-> "find_email",
                                            payload |-> payload]]
    /\ UNCHANGED <<users, profiles, projects, blogs, nextOid, now, provisioned>>

\* users.find_one({"email": payload.email})
SignupFindEmail(p) ==
    /\ Ready
    /\ proc[p].op = "signup"
    /\ proc[p].pc = "find_email"
    /\ IF EmailExists(proc[p].payload)
       THEN /\ resp' = Response("signup", proc[p].payload, 400,
                                "Email already registered")
            /\ proc' = [proc EXCEPT ![p] = Idle]
       ELSE /\ resp' = NoResp
            /\ proc' = [proc EXCEPT ![p].pc = "create_user"]
    /\ UNCHANGED <<users, profiles, projects, blogs, nextOid, now, provisioned>>

\* user = UserSchema(...); user_id = create_document("user", user)
SignupCreateUser(p) ==
    /\ Ready
    /\ proc[p].op = "signup"
    /\ proc[p].pc = "create_user"
    /\ IF ~UserSchemaValid(proc[p].payload)
       THEN /\ resp' = Response("signup", proc[p].payload, 500, "ValidationError")
            /\ proc' = [proc EXCEPT ![p] = Idle]
            /\ UNCHANGED <<users, nextOid>>
       ELSE /\ nextOid < MaxOid
            /\ users' = create_document(users, UserSchema(proc[p].payload), NewOid(nextOid))
            /\ nextOid' = nextOid + 1
            /\ resp' = NoResp
            /\ proc' = [proc EXCEPT ![p] = [op |-> "signup", pc |-> "create_profile",
                                            payload |-> proc[p].payload,
                                            user_id |-> OidStr(NewOid(nextOid))]]
    /\ UNCHANGED <<profiles, projects, blogs, now, provisioned>>

\* create_document("profile", profile); return {"id": user_id, "username": ...}
SignupCreateProfile(p) ==
    /\ Ready
    /\ proc[p].op = "signup"
    /\ proc[p].pc = "create_profile"
    /\ nextOid < MaxOid
    /\ profiles' = create_document(profiles, ProfileSchema(proc[p].payload.username),
                                   NewOid(nextOid))
    /\ nextOid' = nextOid + 1
    /\ resp' = Response("signup", proc[p].payload, 200,
                        [id |-> proc[p].user_id, username |-> proc[p].payload.username])
    /\ provisioned' = IF \E q \in Procs : /\ proc[q].op = "update_profile"
                                          /\ proc[q].args.username = proc[p].payload.username
                      THEN provisioned
                      ELSE provisioned \cup {proc[p].payload.username}
    /\ proc' = [proc EXCEPT ![p] = Idle]
    /\ UNCHANGED <<users, projects, blogs, now>>

(***************************************************************************)
(* login                                                                   *)
(***************************************************************************)
\* the lookup without the password
LoginFilterUsernameOnly(payload) == [username |-> payload.username]

\* {"username": payload.username, "password_hash": payload.password}
LoginFilter(payload) ==
    [username |-> payload.username, password_hash |-> payload.password]

login(payload) ==
    /\ Ready
    /\ IF FindOne(users, LoginFilter(payload)) = None
       THEN resp' = Response("login", payload, 401, "Invalid credentials")
       ELSE resp' = Response("login", payload, 200,
                             [ok |-> TRUE, username |-> payload.username])
    /\ UNCHANGED <<users, profiles, projects, blogs, nextOid, now, proc, provisioned>>

(***************************************************************************)
(* get_profile                                                             *)
(***************************************************************************)
\* the query without its filter
OwnerFilterNone(username) == <<>>

\* {"username": username}
OwnerFilter(username) == [username |-> username]

\* {"username": username, "published": True}
PublishedOwnerFilter(username) == [username |-> username, published |-> TRUE]

\* prof = collection("profile").find_one({"username": username})
GetProfileFindProfile(p, username) ==
    /\ Ready
    /\ FreeSlot(p)
    /\ LET prof == FindOne(profiles, UsernameFilter(username))
           args == [username |-> username, after |-> username \in provisioned]
       IN IF prof = None
          THEN /\ resp' = Response("get_profile", args, 404, "Profile not found")
               /\ proc' = proc
          ELSE /\ resp' = NoResp
               /\ proc' = [proc EXCEPT ![p] = [op |-> "get_profile", pc |-> "find_projects",
                                               args |-> args, prof |-> prof]]
    /\ UNCHANGED <<users, profiles, projects, blogs, nextOid, now, provisioned>>

\* projects = list(collection("project").find({"username": username}).sort("featured", -1))
GetProfileFindProjects(p) ==
    /\ Ready
    /\ proc[p].op = "get_profile"
    /\ proc[p].pc = "find_projects"
    /\ proc' = [proc EXCEPT ![p] =
                  [op |-> "get_profile", pc |-> "find_blogs", args |-> proc[p].args,
                   prof |-> proc[p].prof,
                   projects |-> SortDesc(Find(projects, OwnerFilter(proc[p].args.username)),
                                         "featured")]]
    /\ resp' = NoResp
    /\ UNCHANGED <<users, profiles, projects, blogs, nextOid, now, provisioned>>

\* blogs = list(collection("blog").find({"username": ..., "published": True})
\*              .sort("published_at", -1)); return {...}
GetProfileFindBlogs(p) ==
    /\ Ready
    /\ proc[p].op = "get_profile"
    /\ proc[p].pc = "find_blogs"
    /\ LET found == SortDesc(Find(blogs, PublishedOwnerFilter(proc[p].args.username)),
                             "published_at")
       IN resp' = Response("get_profile", proc[p].args, 200,
                           [profile |-> to_public(proc[p].prof),
                            projects |-> PublicList(proc[p].projects),
                            blogs |-> PublicList(found)])
    /\ proc' = [proc EXCEPT ![p] = Idle]
    /\ UNCHANGED <<users, profiles, projects, blogs, nextOid, now, provisioned>>

(***************************************************************************)
(* update_profile                                                          *)
(***************************************************************************)
\* every field of the dump, the null ones too
UpdateFieldsAll(payload) == DOMAIN payload

\* update = {k: v for k, v in payload.model_dump().items() if v is not None}
UpdateFields(payload) == {k \in DOMAIN payload : payload[k] # None}

UpdateDict(payload) == [k \in UpdateFields(payload) |-> payload[k]]

\* the write made whatever the patch holds
NeedsWriteAlways(update) == TRUE

\* if update:
NeedsWrite(update) == DOMAIN update # {}

\* {"$set": update} on one document
SetFields(d, update) ==
    [k \in DOMAIN d \cup DOMAIN update |-> IF k \in DOMAIN update THEN update[k] ELSE d[k]]

\* update_one(filter, {"$set": update}): the first matching document, if any
UpdateOne(coll, filt, update) ==
    IF FirstMatch(coll, filt) > 0
    THEN [coll EXCEPT ![FirstMatch(coll, filt)] = SetFields(@, update)]
    ELSE coll

\* history: an update_profile for username has begun, so the get_profile requests
\* in flight for it no longer come after a signup with no update_profile in between
Updated(username, pr) ==
    [q \in Procs |->
       IF pr[q].op = "get_profile" /\ pr[q].args.username = username
       THEN [pr[q] EXCEPT !.args.after = FALSE]
       ELSE pr[q]]

\* prof = profs.find_one({"username": username}); update = {...}
UpdateProfileFind(p, username, payload) ==
    /\ Ready
    /\ FreeSlot(p)
    /\ LET args == [username |-> username, payload |-> payload]
       IN IF FindOne(profiles, UsernameFilter(username)) = None
          THEN /\ resp' = Response("update_profile", args, 404, "Profile not found")
               /\ proc' = Updated(username, proc)
          ELSE /\ resp' = NoResp
               /\ proc' = Updated(username,
                             [proc EXCEPT ![p] =
                                [op |-> "update_profile",
                                 pc |-> IF NeedsWrite(UpdateDict(payload)) THEN "stamp"
                                        ELSE "refetch",
                                 args |-> args,
                                 update |-> UpdateDict(payload)]])
    /\ provisioned' = provisioned \ {username}
    /\ UNCHANGED <<users, profiles, projects, blogs, nextOid, now>>

\* update["updated_at"] = datetime.utcnow(): the clock is read before the store is
\* called, and the request holds the reading until its write
UpdateProfileStamp(p) ==
    /\ Ready
    /\ proc[p].op = "update_profile"
    /\ proc[p].pc = "stamp"
    /\ \E t \in utcnow :
          /\ now' = t
          /\ proc' = [proc EXCEPT ![p] =
                        [op |-> "update_profile", pc |-> "write", args |-> proc[p].args,
                         update |-> proc[p].update @@ [updated_at |-> Some(t)]]]
    /\ resp' = NoResp
    /\ UNCHANGED <<users, profiles, projects, blogs, nextOid, provisioned>>

\* profs.update_one({"username": username}, {"$set": update})
UpdateProfileWrite(p) ==
    /\ Ready
    /\ proc[p].op = "update_profile"
    /\ proc[p].pc = "write"
    /\ profiles' = UpdateOne(profiles, UsernameFilter(proc[p].args.username), proc[p].update)
    /\ proc' = [proc EXCEPT ![p].pc = "refetch"]
    /\ resp' = NoResp
    /\ UNCHANGED <<users, projects, blogs, nextOid, now, provisioned>>

\* prof = profs.find_one({"username": username}); return to_public(prof)
UpdateProfileRefetch(p) ==
    /\ Ready
    /\ proc[p].op = "update_profile"
    /\ proc[p].pc = "refetch"
    /\ resp' = Response("update_profile", proc[p].args, 200,
                        to_public(FindOne(profiles, UsernameFilter(proc[p].args.username))))
    /\ proc' = [proc EXCEPT ![p] = Idle]
    /\ UNCHANGED <<users, profiles, projects, blogs, nextOid, now, provisioned>>

(***************************************************************************)
(* projects                                                                *)
(***************************************************************************)
\* the create_blog requests that have built their blog and not yet inserted it; the
\* bound on the identifiers counts them, so that a request that begins can finish
InFlightInserts == Cardinality({q \in Procs : proc[q].op = "create_blog"})

create_project(username, payload) ==
    /\ Ready
    /\ nextOid + InFlightInserts < MaxOid
    /\ projects' = create_document(projects, ProjectSchema(username, payload), NewOid(nextOid))
    /\ nextOid' = nextOid + 1
    /\ resp' = Response("create_project", [username |-> username, payload |-> payload], 200,
                        [id |-> OidStr(NewOid(nextOid))])
    /\ UNCHANGED <<users, profiles, blogs, now, proc, provisioned>>

list_projects(username) ==
    /\ Ready
    /\ resp' = Response("list_projects", [username |-> username], 200,
                        PublicList(SortDesc(Find(projects, OwnerFilter(username)),
                                            "featured")))
    /\ UNCHANGED <<users, profiles, projects, blogs, nextOid, now, proc, provisioned>>

\* the delete by identifier alone
DeleteFilterIdOnly(oid, username) == [_id |-> oid]

\* {"_id": oid, "username": username}
DeleteFilter(oid, username) == [_id |-> oid, username |-> username]

\* delete_one(filter): the first matching document, if any, is removed
DeleteOne(coll, filt) ==
    IF FirstMatch(coll, filt) > 0
    THEN SubSeq(coll, 1, FirstMatch(coll, filt) - 1)
         \o SubSeq(coll, FirstMatch(coll, filt) + 1, Len(coll))
    ELSE coll

delete_project(username, project_id) ==
    /\ Ready
    /\ LET args == [username |-> username, project_id |-> project_id]
       IN IF ~ObjectIdValid(project_id)
          THEN /\ resp' = Response("delete_project", args, 400, "Invalid id")
               /\ projects' = projects
          ELSE LET oid == ObjectId(project_id)
                   left == DeleteOne(projects, DeleteFilter(oid, username))
               IN /\ projects' = left
                  /\ IF Len(projects) - Len(left) = 0
                     THEN resp' = Response("delete_project", args, 404, "Not found")
                     ELSE resp' = Response("delete_project", args, 200, [ok |-> TRUE])
    /\ UNCHANGED <<users, profiles, blogs, nextOid, now, proc, provisioned>>

(***************************************************************************)
(* blogs                                                                   *)
(***************************************************************************)
\* data = payload.model_dump(); if data.get("published"): data["published_at"] =
\* datetime.utcnow(); blog = BlogSchema(username=username, **data). The clock is read
\* only for a published blog, and before the store is called: the request holds the
\* blog it has built until its insert.
CreateBlogBuild(p, username, payload) ==
    /\ Ready
    /\ FreeSlot(p)
    /\ nextOid + InFlightInserts < MaxOid
    /\ \E t \in (IF payload.published THEN utcnow ELSE {now}) :
          /\ now' = t
          /\ proc' = [proc EXCEPT ![p] =
                        [op |-> "create_blog", pc |-> "insert",
                         args |-> [username |-> username, payload |-> payload],
                         blog |-> BlogSchema(username, payload, t)]]
    /\ resp' = NoResp
    /\ UNCHANGED <<users, profiles, projects, blogs, nextOid, provisioned>>

\* bid = create_document("blog", blog); return {"id": bid}
CreateBlogInsert(p) ==
    /\ Ready
    /\ proc[p].op = "create_blog"
    /\ proc[p].pc = "insert"
    /\ nextOid < MaxOid
    /\ blogs' = create_document(blogs, proc[p].blog, NewOid(nextOid))
    /\ nextOid' = nextOid + 1
    /\ resp' = Response("create_blog", proc[p].args, 200, [id |-> OidStr(NewOid(nextOid))])
    /\ proc' = [proc EXCEPT ![p] = Idle]
    /\ UNCHANGED <<users, profiles, projects, now, provisioned>>

\* published_only: bool = True
PublishedOnly(arg) == IF arg = None THEN TRUE ELSE arg[1]

\* the filter without the published flag
BlogFilterAll(username, published_only) == [username |-> username]

\* filt = {"username": username}; if published_only: filt["published"] = True
BlogFilter(username, published_only) ==
    IF published_only THEN [username |-> username, published |-> TRUE]
    ELSE [username |-> username]

list_blogs(username, arg) ==
    /\ Ready
    /\ resp' = Response("list_blogs", [username |-> username, published_only |-> arg], 200,
                        PublicList(SortDesc(Find(blogs, BlogFilter(username,
                                                                   PublishedOnly(arg))),
                                            "published_at")))
    /\ UNCHANGED <<users, profiles, projects, blogs, nextOid, now, proc, provisioned>>

\* {"username": username, "slug": slug}
SlugFilter(username, slug) == [username |-> username, slug |-> slug]

get_blog(username, slug) ==
    /\ Ready
    /\ LET blog == FindOne(blogs, SlugFilter(username, slug))
           args == [username |-> username, slug |-> slug]
       IN IF blog = None
          THEN resp' = Response("get_blog", args, 404, "Not found")
          ELSE resp' = Response("get_blog", args, 200, to_public(blog))
    /\ UNCHANGED <<users, profiles, projects, blogs, nextOid, now, proc, provisioned>>

Slugs == {"hello", "world"}

(***************************************************************************)
(* Specifications. The identity operations never touch project or blog,    *)
(* the project and blog operations never touch user or profile, so each    *)
(* group is explored on its own, with the requests of the group            *)
(* interleaving freely.                                                    *)
(***************************************************************************)
\* signup and login
NextIdentity ==
    \/ Deliver
    \/ \E p \in Procs, payload \in SignupRequest : SignupFindUsername(p, payload)
    \/ \E p \in Procs : SignupFindEmail(p)
    \/ \E p \in Procs : SignupCreateUser(p)
    \/ \E p \in Procs : SignupCreateProfile(p)
    \/ \E payload \in LoginRequest : login(payload)

SpecIdentity == Init /\ [][NextIdentity]_vars

\* the signups whose username and email are valid
ProfileSignupRequest == {r \in SignupRequest :
                           /\ r.username \in Usernames
                           /\ r.email = (IF r.username = "ann" THEN EmailAnnUpper ELSE EmailBob)
                           /\ r.password = "pw1"
                           /\ r.display_name = None}

\* signup, get_profile and update_profile
NextProfile ==
    \/ Deliver
    \/ \E p \in Procs, payload \in ProfileSignupRequest : SignupFindUsername(p, payload)
    \/ \E p \in Procs : SignupFindEmail(p)
    \/ \E p \in Procs : SignupCreateUser(p)
    \/ \E p \in Procs : SignupCreateProfile(p)
    \/ \E p \in Procs, username \in Usernames : GetProfileFindProfile(p, username)
    \/ \E p \in Procs : GetProfileFindProjects(p)
    \/ \E p \in Procs : GetProfileFindBlogs(p)
    \/ \E p \in Procs, username \in Usernames, payload \in ProfileUpdate :
          UpdateProfileFind(p, username, payload)
    \/ \E p \in Procs : UpdateProfileStamp(p)
    \/ \E p \in Procs : UpdateProfileWrite(p)
    \/ \E p \in Procs : UpdateProfileRefetch(p)

SpecProfile == Init /\ [][NextProfile]_vars

\* The state after signup of "ann" alone.
InitContent ==
    /\ users = create_document(<<>>, UserSchema([username |-> "ann", email |-> EmailAnnUpper,
                                                 password |-> "pw1", display_name |-> None]),
                               NewOid(0))
    /\ profiles = create_document(<<>>, ProfileSchema("ann"), NewOid(1))
    /\ projects = <<>>
    /\ blogs = <<>>
    /\ nextOid = 2
    /\ now = 0
    /\ proc = [p \in Procs |-> Idle]
    /\ resp = NoResp
    /\ provisioned = {"ann"}

\* The project and blog operations, and get_profile. Two requests that make more
\* than one step (get_profile, create_blog) are in flight at a time.
NextContent ==
    \/ Deliver
    \/ \E p \in Procs, username \in Usernames : GetProfileFindProfile(p, username)
    \/ \E p \in Procs : GetProfileFindProjects(p)
    \/ \E p \in Procs : GetProfileFindBlogs(p)
    \/ \E username \in Usernames, payload \in ProjectCreate : create_project(username, payload)
    \/ \E username \in Usernames : list_projects(username)
    \/ \E username \in Usernames, project_id \in ProjectIds :
          delete_project(username, project_id)
    \/ \E p \in Procs, username \in Usernames, payload \in BlogCreate :
          CreateBlogBuild(p, username, payload)
    \/ \E p \in Procs : CreateBlogInsert(p)
    \/ \E username \in Usernames, arg \in PublishedOnlyArgs : list_blogs(username, arg)
    \/ \E username \in Usernames, slug \in Slugs : get_blog(username, slug)

SpecContent == InitContent /\ [][NextContent]_vars

(***************************************************************************)
(* Claims on signup and login (SpecIdentity).                              *)
(***************************************************************************)
\* a signup request for username u begins in this step
SignupBegins(u) ==
    \/ resp'.op = "signup" /\ proc' = proc /\ resp'.args.username = u
    \/ \E p \in Procs : /\ proc[p] = Idle
                        /\ proc'[p].op = "signup"
                        /\ proc'[p].payload.username = u

\* C1: a signup that returns success has stored a User and a Profile of its
\* username; once it has, every signup for the same username that begins afterwards
\* fails at once with 400, whatever its email, and adds no User and no Profile.
C1_SecondSignupConflicts ==
    [][/\ (resp'.op = "signup" /\ resp'.status = 200) =>
             /\ resp'.args.username \in provisioned'
             /\ \E i \in 1..Len(users') : users'[i].username = resp'.args.username
             /\ Len(profiles') = Len(profiles) + 1
             /\ profiles'[Len(profiles')].username = resp'.args.username
       /\ \A u \in SignupUsernames :
             (u \in provisioned /\ SignupBegins(u)) =>
                /\ resp'.op = "signup"
                /\ resp'.status = 400
                /\ users' = users
                /\ profiles' = profiles
                /\ proc' = proc]_vars

\* a second signup for "ann", with an email that is not even valid, was refused after
\* the first one succeeded
C1_Witness ==
    /\ resp.op = "signup"
    /\ resp.status = 400
    /\ resp.args.username \in provisioned
    /\ resp.args.email = EmailBad
    /\ Len(users) = 1
    /\ Len(profiles) = 1

\* C2: no two stored users have the same username and no two have the same email.
C2_UniqueUsers ==
    \A i, j \in 1..Len(users) :
        i # j => users[i].username # users[j].username /\ users[i].email # users[j].email

\* C4: login answers 200 exactly when a stored user has the username and the
\* password_hash of the request, answers 401 otherwise, and changes nothing.
C4_LoginIffMatch ==
    [][resp'.op = "login" =>
         /\ resp'.status = 200 <=>
               \E i \in 1..Len(users) : /\ users[i].username = resp'.args.username
                                        /\ users[i].password_hash = resp'.args.password
         /\ resp'.status \in {200, 401}
         /\ store' = store
         /\ proc' = proc]_vars

\* a login with the username of a stored user and another password was refused
C4_Witness ==
    /\ resp.op = "login"
    /\ resp.status = 401
    /\ \E i \in 1..Len(users) : /\ users[i].username = resp.args.username
                                /\ users[i].password_hash # resp.args.password

(***************************************************************************)
(* Claims on the profile (SpecProfile).                                    *)
(***************************************************************************)
ProfileFields == {"headline", "about", "socials", "theme"}

\* the place in the store of the first profile of username u, 0 if there is none
FirstProfile(u) ==
    IF \E i \in 1..Len(profiles) : profiles[i].username = u
    THEN CHOOSE i \in 1..Len(profiles) :
           profiles[i].username = u /\ \A j \in 1..(i - 1) : profiles[j].username # u
    ELSE 0

\* C3: a get_profile(u) issued after a signup(u) returned success, with no
\* update_profile for u in flight at any moment between that return and the answer,
\* answers 200 with headline "", about "", socials {} and theme "holo".
C3_ProfileAfterSignup ==
    (resp.op = "get_profile" /\ resp.args.after) =>
        /\ resp.status = 200
        /\ resp.body.profile[1].username = resp.args.username
        /\ resp.body.profile[1].headline = Some("")
        /\ resp.body.profile[1].about = Some("")
        /\ resp.body.profile[1].socials = Some({})
        /\ resp.body.profile[1].theme = Some("holo")

\* request slot p holds, before or after this step, an update_profile whose patch
\* has no field
EmptyPatchStep(p) ==
    /\ proc'[p] # proc[p]
    /\ \/ /\ proc[p].op = "update_profile"
          /\ \A k \in ProfileFields : proc[p].args.payload[k] = None
       \/ /\ proc'[p].op = "update_profile"
          /\ \A k \in ProfileFields : proc'[p].args.payload[k] = None

\* C6: no step of an update_profile with an empty patch writes: every profile,
\* updated_at included, is after the step what it was before, and the answer is the
\* stored profile of the username.
C6_EmptyPatchNoWrite ==
    [][\A p \in Procs :
         EmptyPatchStep(p) =>
            /\ profiles' = profiles
            /\ now' = now
            /\ resp'.op = "update_profile" =>
                  /\ resp'.status = 200
                  /\ resp'.body[1].username = resp'.args.username
                  /\ resp'.body[1].id = OidStr(profiles[FirstProfile(resp'.args.username)]._id)
                  /\ "_id" \notin DOMAIN resp'.body[1]
                  /\ \A k \in DOMAIN profiles[FirstProfile(resp'.args.username)] \ {"_id"} :
                        resp'.body[1][k] = profiles[FirstProfile(resp'.args.username)][k]]_vars

\* an update_profile with an empty patch answered with a profile that an earlier
\* update had stamped
C6_Witness ==
    /\ resp.op = "update_profile"
    /\ resp.status = 200
    /\ \A k \in ProfileFields : resp.args.payload[k] = None
    /\ "updated_at" \in DOMAIN resp.body[1]
    /\ resp.body[1].headline = Some("dev")

\* C7: the write of update_profile is a merge-patch on the first profile of the
\* username: a field present in the patch gets its value, a field absent from it
\* keeps its value, the username stays, and no other profile changes.
C7_MergePatch ==
    [][\A p \in Procs :
         (proc[p].op = "update_profile" /\ proc[p].pc = "write" /\ proc'[p].pc = "refetch") =>
            LET u == proc[p].args.username
                patch == proc[p].args.payload
                i == FirstProfile(u)
            IN /\ i > 0
               /\ Len(profiles') = Len(profiles)
               /\ \A k \in ProfileFields :
                     profiles'[i][k] = (IF patch[k] # None THEN patch[k] ELSE profiles[i][k])
               /\ profiles'[i].username = u
               /\ profiles'[i]._id = profiles[i]._id
               /\ \A j \in 1..Len(profiles) : j # i => profiles'[j] = profiles[j]]_vars

\* a patch of the headline alone has been written over a profile whose theme an
\* earlier patch had set to ""
C7_Witness ==
    \E p \in Procs :
        /\ proc[p].op = "update_profile"
        /\ proc[p].pc = "refetch"
        /\ proc[p].args.payload.headline = Some("dev")
        /\ proc[p].args.payload.theme = None
        /\ FirstProfile(proc[p].args.username) > 0
        /\ profiles[FirstProfile(proc[p].args.username)].headline = Some("dev")
        /\ profiles[FirstProfile(proc[p].args.username)].theme = Some("")

(***************************************************************************)
(* Claims on projects and blogs (SpecContent).                             *)
(***************************************************************************)
\* C5: delete_project(u1, id), id being the identifier of a stored project of another
\* username, answers 404 and leaves every project in the store.
C5_DeleteForeignProject ==
    [][(/\ resp'.op = "delete_project"
        /\ ObjectIdValid(resp'.args.project_id)
        /\ \E i \in 1..Len(projects) :
              /\ OidStr(projects[i]._id) = LowerStr(resp'.args.project_id)
              /\ projects[i].username # resp'.args.username) =>
           /\ resp'.status = 404
           /\ projects' = projects]_vars

\* "ann" asked to delete the project of "bob" by its identifier; it is still stored
C5_Witness ==
    /\ resp.op = "delete_project"
    /\ resp.status = 404
    /\ resp.args.username = "ann"
    /\ \E i \in 1..Len(projects) :
          /\ OidStr(projects[i]._id) = resp.args.project_id
          /\ projects[i].username = "bob"

\* the places in the store of the blogs list_blogs is to return
ExpectedBlogs ==
    {i \in 1..Len(blogs) :
       /\ blogs[i].username = resp.args.username
       /\ (resp.args.published_only # Some(FALSE) => blogs[i].published)}

\* C8: list_blogs returns exactly the stored blogs of the username, all of them when
\* published_only is false and the published ones when it is true or not given.
C8_ListBlogsExact ==
    resp.op = "list_blogs" =>
        /\ resp.status = 200
        /\ Len(resp.body) = Cardinality(ExpectedBlogs)
        /\ {resp.body[k].id : k \in 1..Len(resp.body)}
              = {OidStr(blogs[i]._id) : i \in ExpectedBlogs}
        /\ \A k \in 1..Len(resp.body) : \E i \in ExpectedBlogs :
              /\ resp.body[k].id = OidStr(blogs[i]._id)
              /\ resp.body[k].slug = blogs[i].slug
              /\ resp.body[k].published = blogs[i].published

\* "hello" was created unpublished and then "world" published, both of "ann"; the
\* default list_blogs("ann") returned "world" alone
C8_Witness ==
    /\ resp.op = "list_blogs"
    /\ resp.args = [username |-> "ann", published_only |-> None]
    /\ Len(blogs) = 2
    /\ blogs[1].username = "ann" /\ blogs[1].slug = "hello" /\ ~blogs[1].published
    /\ blogs[2].username = "ann" /\ blogs[2].slug = "world" /\ blogs[2].published
    /\ Len(resp.body) = 1
    /\ resp.body[1].slug = "world"

\* C9: a stored blog has a published_at exactly when it is published; create_blog
\* stores the published flag of the request and no step changes a stored blog.
C9_PublishedAtIffPublished ==
    [][/\ \A i \in 1..Len(blogs') : (blogs'[i].published_at # None) <=> blogs'[i].published
       /\ Len(blogs') >= Len(blogs)
       /\ \A i \in 1..Len(blogs) : blogs'[i] = blogs[i]
       /\ resp'.op = "create_blog" =>
             /\ Len(blogs') = Len(blogs) + 1
             /\ blogs'[Len(blogs')].published = resp'.args.payload.published
             /\ blogs'[Len(blogs')].username = resp'.args.username
             /\ blogs'[Len(blogs')].slug = resp'.args.payload.slug]_vars

\* a draft without published_at and a published blog with one are stored
C9_Witness ==
    /\ Len(blogs) = 2
    /\ ~blogs[1].published /\ blogs[1].published_at = None
    /\ blogs[2].published /\ blogs[2].published_at # None

\* C10: every document a read for username u returns has username u: the lists of
\* list_projects and list_blogs, the blog of get_blog, the projects and blogs of
\* get_profile.
C10_OwnershipScoping ==
    /\ resp.op \in {"list_projects", "list_blogs"} =>
          \A k \in 1..Len(resp.body) : resp.body[k].username = resp.args.username
    /\ (resp.op = "get_blog" /\ resp.status = 200) =>
          /\ resp.body[1].username = resp.args.username
          /\ resp.body[1].slug = resp.args.slug
    /\ (resp.op = "get_profile" /\ resp.status = 200) =>
          /\ resp.body.profile[1].username = resp.args.username
          /\ \A k \in 1..Len(resp.body.projects) :
                resp.body.projects[k].username = resp.args.username
          /\ \A k \in 1..Len(resp.body.blogs) :
                resp.body.blogs[k].username = resp.args.username

\* get_profile("ann") returned the project of "ann" while a project of "bob" was stored
C10_Witness ==
    /\ resp.op = "get_profile"
    /\ resp.status = 200
    /\ resp.args.username = "ann"
    /\ Len(resp.body.projects) = 1
    /\ \E i \in 1..Len(projects) : projects[i].username = "bob"

====
